---- MODULE Spec2Model ----
(***************************************************************************)
(* Generation pipeline of the agent service:                               *)
(*   AgentOrchestrator.generate  (services/orchestrator.py)                *)
(*   LLMService.generate + its tenacity retry policy (services/llm_service)*)
(*   track_generation / _ensure_experiment (core/tracking.py)              *)
(* Every coroutine is cut at its await points and at the calls that reach  *)
(* the tracking server, so that the environment (tracking server, backend, *)
(* task cancellation, client lifecycle) can change between them.           *)
(***************************************************************************)
EXTENDS Integers, Sequences, FiniteSets, TLC

\* ---------------------------------------------------------------- bounds
NCalls == 1              \* concurrent Orchestrator.generate invocations (fault runs)
NServed == 2             \* concurrent invocations behind a transport
MaxFail == 3             \* a backend script fails on at most this many leading attempts
MaxRetriesSetting == 3   \* Settings.llm_max_retries is 1 or MaxRetriesSetting
MaxWaitAttempts == 6     \* attempt numbers the wait function is evaluated for

\* ------------------------------------------------------ program constants
\* stop=stop_after_attempt(3)
StopAfterAttempt == 3
\* wait=wait_exponential(multiplier=1, min=1, max=10)
WaitMultiplier == 1
WaitMin == 1
WaitMax == 10

\* ------------------------------------------------------------ exceptions
\* An exception is its class, its str() and the backend attempt that raised it.
NoExc == [cls |-> "None", msg |-> "", at |-> 0]

Exc(cls, msg, at) == [cls |-> cls, msg |-> msg, at |-> at]

\* What one backend attempt can answer (the environment's side of the POST).
FailKinds == {"http4xx", "http5xx", "connect", "timeout", "malformed"}

\* Exception raised inside LLMService.generate for a failing backend answer:
\* raise_for_status() for a 4xx/5xx status, httpx.ConnectError when no
\* connection can be established, httpx.ReadTimeout (whose str() is empty)
\* when a per-request timeout expires, orjson.JSONDecodeError for a body
\* that is not JSON.
BackendExc(kind, at) ==
    CASE kind = "http4xx"   -> Exc("HTTPStatusError", "Client error 400", at)
      [] kind = "http5xx"   -> Exc("HTTPStatusError", "Server error 503", at)
      [] kind = "connect"   -> Exc("ConnectError", "All connection attempts failed", at)
      [] kind = "timeout"   -> Exc("ReadTimeout", "", at)
      [] kind = "malformed" -> Exc("JSONDecodeError", "unexpected character", at)

BackendTextShared(c) == <<"response", 1>>

\* Text of the "response" field the backend returns to call c.
BackendText(c) == <<"response", c>>

\* ---------------------------------------------------------- retry policy
RetryIfAnyException(exc) == TRUE

\* retry=retry_if_exception_type((httpx.HTTPStatusError, httpx.ConnectError))
RetryIfExceptionType(exc) == exc.cls \in {"HTTPStatusError", "ConnectError"}

StopOneAttemptEarly(attemptNumber) == attemptNumber >= StopAfterAttempt - 1

\* stop_after_attempt: stop once attempt_number reaches the limit
StopNow(attemptNumber) == attemptNumber >= StopAfterAttempt

RECURSIVE Pow2(_)
Pow2(n) == IF n <= 0 THEN 1 ELSE 2 * Pow2(n - 1)

Max2(a, b) == IF a >= b THEN a ELSE b
Min2(a, b) == IF a <= b THEN a ELSE b

WaitExponentialFromTwo(attemptNumber) ==
    Max2(WaitMin, Min2(WaitMultiplier * Pow2(attemptNumber), WaitMax))

\* wait_exponential: multiplier * 2^(attempt_number - 1), clamped to [min, max]
WaitExponential(attemptNumber) ==
    Max2(WaitMin, Min2(WaitMultiplier * Pow2(attemptNumber - 1), WaitMax))

RetryErrorWrap(exc) == Exc("RetryError", "RetryError", exc.at)

\* reraise=True: after the last attempt the attempt's own exception is raised
Reraise(exc) == exc

\* ------------------------------------------------------------------ text
\* A Python str is the sequence of its pieces (tokens); "" is << >>.
\* sep.join(parts)
RECURSIVE Join(_, _)
Join(sep, parts) ==
    IF parts = << >> THEN << >>
    ELSE IF Len(parts) = 1 THEN parts[1]
    ELSE parts[1] \o sep \o Join(sep, Tail(parts))

BlankLine == <<"\n\n">>

\* ------------------------------------------------------- rag_service.py
MaxChunks == 2           \* a retriever returns at most this many chunks

\* RetrievedChunk(content, source, score); the score in units of 0.0001.
ChunkPool ==
    { [content |-> "alpha", source |-> "a.md", score |-> 5000],
      [content |-> "beta",  source |-> "b.md", score |-> 9000],
      [content |-> "gamma", source |-> "c.md", score |-> 1234] }

\* What a retriever can return: any sequence of at most MaxChunks chunks.
ChunkSeqs == UNION { [1 .. n -> ChunkPool] : n \in 0 .. MaxChunks }

\* f"{score:.3f}": the score rounded to thousandths, three decimals printed.
Fmt3(score) ==
    LET r == (score + 5) \div 10 IN
    <<ToString(r \div 1000), ".", ToString((r \div 100) % 10),
      ToString((r \div 10) % 10), ToString(r % 10)>>

ChunkLabelZeroBased(idx) == idx - 1

\* enumerate(chunks, 1): the label of the chunk at 1-based position idx
ChunkLabel(idx) == idx

\* f"[{idx}] (source={chunk.source}, score={chunk.score:.3f})\n{chunk.content}"
ChunkPart(idx, chunk) ==
    <<"[", ToString(ChunkLabel(idx)), "]", " (source=", chunk.source, ", score=">>
    \o Fmt3(chunk.score) \o <<")", "\n", chunk.content>>

RagHeader == <<"### Retrieved Context ###">>
RagFooter == <<"### End Context ###">>

\* format_rag_context
FormatRagContext(chunks) ==
    IF chunks = << >> THEN << >>
    ELSE Join(BlankLine,
              <<RagHeader>> \o [i \in 1 .. Len(chunks) |-> ChunkPart(i, chunks[i])]
              \o <<RagFooter>>)

\* --------------------------------------------- LLMService.build_prompt
ContextAlwaysIncluded(context_json) == TRUE

\* `if context_json:` - the section is appended for a non-empty string only
ContextIncluded(context_json) == context_json # << >>

\* LLMService.build_prompt
BuildPrompt(system_prompt, context_json, rag_context, user_message) ==
    LET p1 == IF system_prompt # << >>
              THEN <<(<<"[System]", "\n">> \o system_prompt)>> ELSE << >>
        p2 == IF ContextIncluded(context_json)
              THEN <<(<<"[Context]", "\n">> \o context_json)>> ELSE << >>
        p3 == IF rag_context # << >> THEN <<rag_context>> ELSE << >>
        p4 == <<(<<"[User]", "\n">> \o user_message)>>
    IN Join(BlankLine, p1 \o p2 \o p3 \o p4)

\* ------------------------------------- LLMService.generate_structured
\* Texts the backend may return, as sequences of JSON lexemes (or of words
\* that are no JSON at all).
StructuredTexts ==
    { <<"{", "\"a\"", ":", "1", "}">>, <<"{", "}">>, <<"1">>, <<"\"hello\"">>,
      <<"[", "1", "]">>, <<"[", "]">>, <<"null">>, <<"true">>,
      <<"hello">>, << >>, <<"{", "\"a\"", ":">>, <<"Hello", "!">> }

JsonScalarType(tok) ==
    CASE tok \in {"1", "42"} -> "int"
      [] tok \in {"\"a\"", "\"hello\""} -> "str"
      [] tok = "null" -> "NoneType"
      [] tok \in {"true", "false"} -> "bool"
      [] OTHER -> "invalid"

\* json.loads: the Python value of a JSON text (its type and the lexemes
\* that make it up), or ok = FALSE for json.JSONDecodeError.
JsonLoads(text) ==
    LET bad == [ok |-> FALSE, type |-> "JSONDecodeError", value |-> << >>]
        val(t) == [ok |-> TRUE, type |-> t, value |-> text]
    IN CASE Len(text) = 1 ->
              IF JsonScalarType(text[1]) # "invalid"
              THEN val(JsonScalarType(text[1])) ELSE bad
         [] Len(text) = 2 ->
              IF text = <<"{", "}">> THEN val("dict")
              ELSE IF text = <<"[", "]">> THEN val("list") ELSE bad
         [] Len(text) = 3 ->
              IF text[1] = "[" /\ text[3] = "]" /\ JsonScalarType(text[2]) # "invalid"
              THEN val("list") ELSE bad
         [] Len(text) = 5 ->
              IF /\ text[1] = "{" /\ JsonScalarType(text[2]) = "str" /\ text[3] = ":"
                 /\ JsonScalarType(text[4]) # "invalid" /\ text[5] = "}"
              THEN val("dict") ELSE bad
         [] OTHER -> bad

\* {"text": result.text}
TextFallback(text) == [type |-> "dict", value |-> <<"text", text>>]

\* generate_structured after `result = await self.generate(...)` returned:
\* whatever json.loads returns is returned; only a decode error falls back.
GenerateStructured(text) ==
    LET parsed == JsonLoads(text) IN
    IF parsed.ok THEN [type |-> parsed.type, value |-> parsed.value]
    ELSE TextFallback(text)

\* ------------------------------------------------------------- telemetry
\* `except Exception as exc`: asyncio.CancelledError is a BaseException and
\* passes through this clause without being recorded.
ExceptException(exc) == exc.cls \notin {"None", "CancelledError"}

\* result["error"] after the except clause: str(exc) or None (modelled "None")
ResultError(exc) == IF ExceptException(exc) THEN <<"str", exc.msg>> ELSE <<"None">>

\* `if result["error"]:` - None and the empty string are both falsy
Truthy(err) == err # <<"None">> /\ err # <<"str", "">>

\* mlflow.set_tag("status", ...) of the finally block
StatusTag(exc) == IF Truthy(ResultError(exc)) THEN "error" ELSE "success"

FinallyOnlyOnSuccess(exc) == exc.cls = "None"

\* The persistence code sits in `finally`: it runs on every exit of the body.
FinallyRuns(exc) == TRUE

\* The record the finally block hands to MLflow.
Record(output, exc) ==
    [output |-> output, status |-> StatusTag(exc),
     error |-> IF Truthy(ResultError(exc)) THEN ResultError(exc) ELSE <<"None">>]

\* A run MLflow opened but whose logging was cut by an outage: no status tag.
PartialRun(rec) == [rec EXCEPT !.status = "unset"]

\* ----------------------------------------------------------------- state
VARIABLES
    settings,            \* Settings (read-only after process start)
    client,              \* LLMService._client: "none" | "open" | "closed"
    experimentEnsured,   \* core.tracking._EXPERIMENT_ENSURED
    trackingUp,          \* is the tracking server reachable right now
    calls,               \* per invocation of AgentOrchestrator.generate
    emitted,             \* per call: records handed to mlflow.start_run
    runs,                \* per call: runs the tracking server stored
    fn,                  \* last call of a pure helper: its name, arguments, result
    life,                \* one LLMService object: its pools, self._client, calls made
    workload,            \* name of what the environment may ask of this run (fixed)
    server,              \* the transport in front of the orchestrator
    initCount            \* completed mlflow.set_experiment calls of the process

vars == <<settings, client, experimentEnsured, trackingUp, calls, emitted, runs,
          fn, life, workload, server, initCount>>

\* The invocations of AgentOrchestrator.generate a run can make.
Calls == DOMAIN calls

\* The pipeline's own variables.
pipeVars == <<settings, client, experimentEnsured, trackingUp, calls, emitted, runs,
              workload, server, initCount>>

\* LLMService.__init__: self._client = None, no pool created yet.
\* client: 0 for None, else the index in pools of the AsyncClient it holds.
LifeIdle == [client |-> 0, pools |-> << >>, hist |-> << >>]

\* No pure helper has been called.
FnIdle == [op |-> "none", in |-> << >>, out |-> << >>]

\* ------------------------------------------------------------- Settings
\* default_temperature = 0.7 (temperatures are counted in tenths)
DefaultTemperatureTenths == 7
\* default_max_tokens = 2048
DefaultMaxTokens == 2048

\* Settings with the shipped defaults and the given llm_max_retries.
SettingsWith(maxRetries) ==
    [llm_max_retries |-> maxRetries,
     ollama_model |-> "qwen2.5:7b-instruct",
     default_temperature |-> DefaultTemperatureTenths,
     default_max_tokens |-> DefaultMaxTokens]

\* Strings a caller may pass (empty or not).
SystemPrompts == {<< >>, <<"You are helpful">>}
ContextJsons == {<< >>, <<"{\"k\": 1}">>}
UserMessages == {<< >>, <<"Hi">>}

\* ------------------------------------------------------------- requests
\* An optional argument is << >> for None and <<v>> for the value v.
\* `x or None` of both transports: a falsy wire value becomes None.
OrNone(x, falsy) == IF x = falsy THEN << >> ELSE <<x>>

\* `x or default`: None and the falsy value both give the default.
OrDefault(opt, falsy, default) ==
    IF opt = << >> \/ opt = <<falsy>> THEN default ELSE opt[1]

\* `x if x is not None else default`
IfNotNone(opt, default) == IF opt = << >> THEN default ELSE opt[1]

\* Keyword arguments of AgentOrchestrator.generate.
Args(wire, model_name, temperature, max_tokens, system_prompt) ==
    [wire |-> wire, model_name |-> model_name, temperature |-> temperature,
     max_tokens |-> max_tokens, system_prompt |-> system_prompt,
     context_json |-> << >>, user_message |-> <<"Hi">>]

\* A call made on the orchestrator itself: every override None, falsy or set.
DirectRequests ==
    { Args(<<"direct">>, m, t, k, sp) :
        m \in {<< >>, <<"">>, <<"m2">>}, t \in {<< >>, <<0>>, <<15>>},
        k \in {<< >>, <<0>>, <<64>>}, sp \in SystemPrompts }

\* rest_api.generate / AgentServicer.Generate: the agent_settings fields of
\* the wire message (never None; "" and 0 when unset) mapped onto the keyword
\* arguments. `wire` keeps what was sent.
TransportRequests(entry) ==
    { Args(<<entry, m, t, k>>, OrNone(m, ""), OrNone(t, 0), OrNone(k, 0), sp) :
        m \in {"", "m2"}, t \in {0, 15}, k \in {0, 64}, sp \in SystemPrompts }

\* The request with nothing overridden.
PlainRequest(entry) ==
    Args(IF entry = "direct" THEN <<entry>> ELSE <<entry, "", 0, 0>>,
         << >>, << >>, << >>, <<"You are helpful">>)

\* A request through a transport with every setting overridden and no
\* system prompt.
OverrideRequest(entry) ==
    Args(<<entry, "m2", 15, 64>>, <<"m2">>, <<15>>, <<64>>, << >>)

\* What the collaborators of one call will do: the retriever returns or
\* raises; the backend fails on its first nfail attempts with `fail`, then
\* answers HTTP 200 with a valid body.
Script(retr, fail, nfail) == [retr |-> retr, fail |-> fail, nfail |-> nfail]

FaultScripts ==
    { Script(r, k, n) : r \in {"ok", "raise"}, k \in FailKinds \cup {"none"},
                        n \in 0 .. MaxFail }

AllScripts ==
    { sc \in FaultScripts :
        /\ (sc.nfail = 0) <=> (sc.fail = "none")
        /\ (sc.retr = "raise") => (sc.nfail = 0) }

FewScripts ==
    { Script("ok", "none", 0), Script("ok", "http5xx", 1), Script("raise", "none", 0) }

\* ----------------------------------------------------------------- calls
NoResult == [text |-> <<"">>, metadata |-> << >>, metadata_json |-> << >>]

IdleCall ==
    [pc |-> "idle", retr |-> "ok", fail |-> "none", nfail |-> 0,
     attemptNumber |-> 0, requests |-> 0, delays |-> << >>,
     output |-> <<"">>, bodyExc |-> NoExc, entered |-> FALSE,
     outcome |-> [kind |-> "pending", text |-> <<"">>, exc |-> NoExc],
     req |-> PlainRequest("direct"),
     model |-> "", temperature |-> 0, max_tokens |-> 0,
     chunks |-> << >>, prompt |-> << >>, tracked |-> << >>,
     bodies |-> {}, llm |-> << >>, log |-> << >>, result |-> NoResult]

\* Fault runs: NCalls direct callers, every backend script, the plain
\* request, the shipped DummyRetriever (no chunks).
FaultWorkload ==
    [entry |-> "direct", callers |-> 1 .. NCalls, scripts |-> AllScripts,
     reqs |-> {PlainRequest("direct")}, chunkSeqs |-> {<< >>}]

\* One call at a time, with every request a transport or a direct caller can
\* make and every chunk sequence a retriever can return.
ReqWorkload ==
    [entry |-> "direct", callers |-> {1}, scripts |-> FewScripts,
     reqs |-> DirectRequests \cup TransportRequests("rest") \cup TransportRequests("grpc"),
     chunkSeqs |-> ChunkSeqs]

\* NServed concurrent callers of one transport; the shipped retriever.
ServeWorkload(entry) ==
    [entry |-> entry, callers |-> 1 .. NServed,
     scripts |-> {Script("ok", "none", 0), Script("ok", "http5xx", 1)},
     reqs |-> {PlainRequest(entry)}, chunkSeqs |-> {<< >>}]

\* The same callers behind REST, each sending either of two requests that
\* differ in every setting and in the prompt.
PairWorkload ==
    [ServeWorkload("rest") EXCEPT
       !.reqs = {PlainRequest("rest"), OverrideRequest("rest")}]

\* The helpers alone: nobody calls generate.
NoWorkload == [FaultWorkload EXCEPT !.callers = {}]

\* The workload a run was started with.
Load ==
    CASE workload = "faults" -> FaultWorkload
      [] workload = "requests" -> ReqWorkload
      [] workload = "rest" -> ServeWorkload("rest")
      [] workload = "grpc" -> ServeWorkload("grpc")
      [] workload = "pair" -> PairWorkload
      [] workload = "none" -> NoWorkload

Init ==
    /\ workload = "faults"
    /\ settings \in {SettingsWith(n) : n \in {1, MaxRetriesSetting}}
    /\ client = "none"
    /\ experimentEnsured = FALSE
    /\ trackingUp \in BOOLEAN
    /\ calls = [c \in Load.callers |-> IdleCall]
    /\ emitted = [c \in Load.callers |-> << >>]
    /\ runs = [c \in Load.callers |-> << >>]
    /\ fn = FnIdle
    /\ life = LifeIdle
    /\ server = "direct"
    /\ initCount = 0

\* ------------------------------------------------------------ environment
\* The tracking server becomes unreachable, or reachable again.
TrackingFlip ==
    /\ trackingUp' = ~trackingUp
    /\ UNCHANGED <<fn, life, workload, server, initCount, settings, client,
                   experimentEnsured, calls, emitted, runs>>

\* LLMService.startup: a fresh httpx.AsyncClient replaces self._client
Startup ==
    /\ client' = "open"
    /\ UNCHANGED <<fn, life, workload, server, initCount, settings,
                   experimentEnsured, trackingUp, calls, emitted, runs>>

\* LLMService.shutdown: aclose() when a client exists; self._client is kept
Shutdown ==
    /\ client' = IF client # "none" THEN "closed" ELSE client
    /\ UNCHANGED <<fn, life, workload, server, initCount, settings,
                   experimentEnsured, trackingUp, calls, emitted, runs>>

\* ------------------------------------------------ AgentOrchestrator.generate
\* A transport hands calls to the orchestrator while it serves; the gRPC
\* server is never stopped, so it still does while the pool is being closed.
Accepting == server \in {"direct", "serving", "closing"}

\* The call is made: the request and what its collaborators will answer are
\* fixed here; the effective model, temperature and max_tokens are resolved
\* and generate suspends in retriever.retrieve.
Begin(c) ==
    /\ calls[c].pc = "idle"
    /\ c \in Load.callers
    /\ Accepting
    /\ \E sc \in Load.scripts, rq \in Load.reqs :
         calls' = [calls EXCEPT ![c] =
              [IdleCall EXCEPT
                 !.pc = "retrieve", !.retr = sc.retr, !.fail = sc.fail,
                 !.nfail = sc.nfail, !.req = rq,
                 !.model = OrDefault(rq.model_name, "", settings.ollama_model),
                 !.temperature = IfNotNone(rq.temperature, settings.default_temperature),
                 !.max_tokens = OrDefault(rq.max_tokens, 0, settings.default_max_tokens),
                 !.log = <<"resolve">>]]
    /\ UNCHANGED <<fn, life, workload, server, initCount, settings, client,
                   experimentEnsured, trackingUp, emitted, runs>>

Raised(call, exc) ==
    [call EXCEPT !.pc = "done",
                 !.outcome = [kind |-> "raise", text |-> <<"">>, exc |-> exc],
                 !.log = Append(@, "raise")]

\* orjson.dumps(metadata).decode(): the serialised form of the mapping
Dumps(metadata) == <<"json", metadata>>

ResultWithoutMetadataJson(call, text) ==
    [text |-> text, metadata |-> [model |-> call.llm.model], metadata_json |-> << >>]

\* Steps 5-6 of generate: the metadata and the mapping that is returned.
ResultOf(call, text) ==
    LET metadata ==
          [model |-> call.llm.model,
           temperature |-> call.temperature,
           max_tokens |-> call.max_tokens,
           eval_count |-> call.llm.eval_count,
           prompt_eval_count |-> call.llm.prompt_eval_count,
           total_duration_ns |-> call.llm.total_duration_ns,
           rag_chunks_used |-> Len(call.chunks)]
    IN [text |-> text, metadata |-> metadata, metadata_json |-> Dumps(metadata)]

Returned(call, text) ==
    [call EXCEPT !.pc = "done",
                 !.outcome = [kind |-> "return", text |-> text, exc |-> NoExc],
                 !.result = ResultOf(call, text),
                 !.log = Append(@, "return")]

RetrievalDegrades(call) == FALSE

\* A retriever error is not caught: it leaves generate at once.
RetrievalPropagates(call) == call.retr = "raise"

ChunksFormattedButLast(chunks) ==
    FormatRagContext(IF chunks = << >> THEN chunks ELSE SubSeq(chunks, 1, Len(chunks) - 1))

\* rag_context = format_rag_context(chunks)
RagContextOf(chunks) == FormatRagContext(chunks)

\* `chunks = await self._retriever.retrieve(...)` completes; format_rag_context
\* and build_prompt follow without suspension. A retriever error leaves
\* generate before the telemetry scope is reached.
RetrieveDone(c) ==
    /\ calls[c].pc = "retrieve"
    /\ \E chunks \in Load.chunkSeqs :
         calls' = [calls EXCEPT ![c] =
           IF RetrievalPropagates(calls[c])
           THEN Raised(calls[c], Exc("RetrievalError", "retrieval failed", 0))
           ELSE LET got == IF calls[c].retr = "raise" THEN << >> ELSE chunks
                    rq == calls[c].req
                IN [calls[c] EXCEPT
                      !.pc = "enter", !.chunks = got,
                      !.prompt = BuildPrompt(rq.system_prompt, rq.context_json,
                                             RagContextOf(got), rq.user_message),
                      !.log = @ \o <<"retrieved", "prompt">>]]
    /\ UNCHANGED <<fn, life, workload, server, initCount, settings, client,
                   experimentEnsured, trackingUp, emitted, runs>>

EnsureSkipsNever(ensured) == FALSE

\* `if _EXPERIMENT_ENSURED: return`
EnsureSkips(ensured) == ensured

\* _ensure_experiment: returns at once when the flag is set; otherwise
\* mlflow.set_experiment contacts the tracking server and the flag is set
\* only when that call came back. Result: <<raised, flag afterwards>>.
EnsureExperiment(ensured, up) ==
    IF EnsureSkips(ensured) THEN <<FALSE, TRUE>>
    ELSE IF up THEN <<FALSE, TRUE>>
    ELSE <<TRUE, FALSE>>

\* `async with track_generation(...)`: _ensure_experiment() runs before the
\* try block, so what it raises leaves generate directly. The keyword
\* arguments of the scope are what its finally block will log.
EnterScope(c) ==
    /\ calls[c].pc = "enter"
    /\ LET e == EnsureExperiment(experimentEnsured, trackingUp)
           call == calls[c]
       IN
         /\ experimentEnsured' = e[2]
         /\ initCount' = initCount +
              (IF ~EnsureSkips(experimentEnsured) /\ ~e[1] THEN 1 ELSE 0)
         /\ calls' = [calls EXCEPT ![c] =
              IF e[1]
              THEN Raised(call, Exc("MlflowException", "tracking server unreachable", 0))
              ELSE [call EXCEPT
                      !.pc = "llm", !.entered = TRUE,
                      !.tracked = [model_name |-> call.model,
                                   temperature |-> call.temperature,
                                   max_tokens |-> call.max_tokens,
                                   full_prompt |-> call.prompt],
                      !.log = Append(@, "enter")]]
    /\ UNCHANGED <<fn, life, workload, server, settings, client, trackingUp,
                   emitted, runs>>

\* -------------------------------------------------------- LLMService.generate
\* What one execution of the decorated function raises (NoExc: it returns).
AttemptExc(cl, call, n) ==
    IF cl = "none" THEN Exc("RuntimeError", "LLMService not started", n)
    ELSE IF cl = "closed" THEN Exc("RuntimeError", "client has been closed", n)
    ELSE IF n <= call.nfail THEN BackendExc(call.fail, n)
    ELSE NoExc

PayloadWithDefaults(call, s) ==
    [model |-> s.ollama_model, prompt |-> call.prompt, stream |-> FALSE,
     options |-> [temperature |-> s.default_temperature,
                  num_predict |-> s.default_max_tokens]]

\* The JSON body of POST /api/generate: LLMService.generate resolves the
\* arguments the orchestrator passed once more, by the same rules.
Payload(call, s) ==
    [model |-> OrDefault(<<call.model>>, "", s.ollama_model),
     prompt |-> call.prompt,
     stream |-> FALSE,
     options |-> [temperature |-> IfNotNone(<<call.temperature>>, s.default_temperature),
                  num_predict |-> OrDefault(<<call.max_tokens>>, 0, s.default_max_tokens)]]

\* The fields LLMService.generate reads from the JSON object of an answer.
ResponseFields ==
    {"response", "model", "total_duration", "prompt_eval_count", "eval_count"}

\* The backend's HTTP 200 answer to `payload`, every field present.
AnswerOf(c, payload) ==
    [response |-> BackendText(c), model |-> payload.model, total_duration |-> 1000,
     prompt_eval_count |-> 5, eval_count |-> 3]

\* dict.get(key, default)
DataGet(data, key, default) == IF key \in DOMAIN data THEN data[key] ELSE default

\* LLMResult(...) built from the parsed answer `data`; _model is the model
\* the request named.
LLMResultFrom(data, _model) ==
    [text |-> DataGet(data, "response", <<"">>),
     model |-> DataGet(data, "model", _model),
     total_duration_ns |-> DataGet(data, "total_duration", 0),
     prompt_eval_count |-> DataGet(data, "prompt_eval_count", 0),
     eval_count |-> DataGet(data, "eval_count", 0)]

\* LLMResult built from the backend's HTTP 200 answer to `payload`.
LLMResultOf(c, payload) == LLMResultFrom(AnswerOf(c, payload), payload.model)

\* One attempt of the tenacity loop around LLMService.generate, from the
\* start of the function body to the decision retry / raise / return.
Attempt(c) ==
    /\ calls[c].pc = "llm"
    /\ LET n == calls[c].attemptNumber + 1
           exc == AttemptExc(client, calls[c], n)
           payload == Payload(calls[c], settings)
           base == [calls[c] EXCEPT
                      !.attemptNumber = n,
                      !.requests = @ + (IF client = "open" THEN 1 ELSE 0),
                      !.bodies = IF client = "open" THEN @ \cup {payload} ELSE @,
                      !.log = IF client = "open" THEN Append(@, "request") ELSE @]
       IN calls' = [calls EXCEPT ![c] =
            IF exc = NoExc
            THEN [base EXCEPT !.pc = "exit", !.output = BackendText(c),
                              !.llm = LLMResultOf(c, payload)]
            ELSE IF ~RetryIfExceptionType(exc)
            THEN [base EXCEPT !.pc = "exit", !.bodyExc = exc]
            ELSE IF StopNow(n)
            THEN [base EXCEPT !.pc = "exit", !.bodyExc = Reraise(exc)]
            ELSE [base EXCEPT !.pc = "backoff",
                              !.delays = Append(@, WaitExponential(n))]]
    /\ UNCHANGED <<fn, life, workload, server, initCount, settings, client,
                   experimentEnsured, trackingUp, emitted, runs>>

\* The backoff sleep of this call is over; only this call was suspended.
Backoff(c) ==
    /\ calls[c].pc = "backoff"
    /\ calls' = [calls EXCEPT ![c].pc = "llm"]
    /\ UNCHANGED <<fn, life, workload, server, initCount, settings, client,
                   experimentEnsured, trackingUp, emitted, runs>>

\* The task running generate is cancelled while suspended at an await:
\* in retriever.retrieve, in the pending POST or in the backoff sleep.
Cancel(c) ==
    /\ \/ calls[c].pc \in {"retrieve", "backoff"}
       \/ calls[c].pc = "llm" /\ client = "open"
    /\ LET exc == Exc("CancelledError", "", calls[c].attemptNumber) IN
       calls' = [calls EXCEPT ![c] =
         IF calls[c].pc = "retrieve"
         THEN Raised(calls[c], exc)
         ELSE [calls[c] EXCEPT
                 !.pc = "exit", !.bodyExc = exc,
                 !.requests = @ + (IF calls[c].pc = "llm" THEN 1 ELSE 0),
                 !.bodies = IF calls[c].pc = "llm"
                            THEN @ \cup {Payload(calls[c], settings)} ELSE @,
                 !.log = IF calls[c].pc = "llm" THEN Append(@, "request") ELSE @,
                 !.attemptNumber = @ + (IF calls[c].pc = "llm" THEN 1 ELSE 0)]]
    /\ UNCHANGED <<fn, life, workload, server, initCount, settings, client,
                   experimentEnsured, trackingUp, emitted, runs>>

\* --------------------------------------------------- track_generation exit
\* What leaves the `async with` block: the body's own exception, re-raised;
\* an exception of the persistence code is logged and dropped.
ScopeExc(bodyExc, stored) == bodyExc

\* The body of `async with` is left (normally or by an exception): except
\* clause, finally block, then steps 5-6 of generate or the re-raise.
ExitScope(c) ==
    /\ calls[c].pc = "exit"
    /\ LET call == [calls[c] EXCEPT
                      !.log = IF FinallyRuns(calls[c].bodyExc)
                              THEN Append(@, "persist") ELSE @]
           rec == Record(call.output, call.bodyExc)
       IN \E p \in IF trackingUp THEN {"stored", "cut"} ELSE {"refused"} :
            /\ emitted' = [emitted EXCEPT ![c] =
                 IF FinallyRuns(call.bodyExc) THEN Append(@, rec) ELSE @]
            /\ runs' = [runs EXCEPT ![c] =
                 IF ~FinallyRuns(call.bodyExc) \/ p = "refused" THEN @
                 ELSE IF p = "stored" THEN Append(@, rec)
                 ELSE Append(@, PartialRun(rec))]
            /\ LET out == ScopeExc(call.bodyExc, p = "stored") IN
               calls' = [calls EXCEPT ![c] =
                    IF out = NoExc THEN Returned(call, call.output)
                    ELSE Raised(call, out)]
    /\ UNCHANGED <<fn, life, workload, server, initCount, settings, client,
                   experimentEnsured, trackingUp>>

Next ==
    \/ TrackingFlip
    \/ Startup
    \/ Shutdown
    \/ \E c \in Calls : Begin(c)
    \/ \E c \in Calls : RetrieveDone(c)
    \/ \E c \in Calls : EnterScope(c)
    \/ \E c \in Calls : Attempt(c)
    \/ \E c \in Calls : Backoff(c)
    \/ \E c \in Calls : Cancel(c)
    \/ \E c \in Calls : ExitScope(c)

Spec == Init /\ [][Next]_vars



\* ------------------------------------------ requests through the pipeline
InitReq ==
    /\ workload = "requests"
    /\ settings = SettingsWith(3)
    /\ client = "none"
    /\ experimentEnsured = FALSE
    /\ trackingUp \in BOOLEAN
    /\ calls = [c \in Load.callers |-> IdleCall]
    /\ emitted = [c \in Load.callers |-> << >>]
    /\ runs = [c \in Load.callers |-> << >>]
    /\ fn = FnIdle
    /\ life = LifeIdle
    /\ server = "direct"
    /\ initCount = 0

SpecReq == InitReq /\ [][Next]_vars

\* ------------------------------------------------- the two server processes
InitServe ==
    /\ workload \in {"rest", "grpc"}
    /\ settings = SettingsWith(3)
    /\ client = "none"
    /\ experimentEnsured = FALSE
    /\ trackingUp \in BOOLEAN
    /\ calls = [c \in Load.callers |-> IdleCall]
    /\ emitted = [c \in Load.callers |-> << >>]
    /\ runs = [c \in Load.callers |-> << >>]
    /\ fn = FnIdle
    /\ life = LifeIdle
    /\ server = "boot"
    /\ initCount = 0

\* No generate call is between its start and its end.
NoneInFlight == \A c \in Calls : calls[c].pc \in {"idle", "done"}

\* lifespan up to `yield` / serve_grpc up to server.start():
\* orchestrator.startup() opens the pool, then calls are accepted.
ServeBoot ==
    /\ server = "boot"
    /\ client' = "open"
    /\ server' = "serving"
    /\ UNCHANGED <<fn, life, workload, initCount, settings, experimentEnsured,
                   trackingUp, calls, emitted, runs>>

\* The process is told to stop. REST: uvicorn stops accepting and waits for
\* the requests in flight before it runs the rest of lifespan. gRPC:
\* wait_for_termination is cancelled and the finally block awaits
\* orchestrator.shutdown() at once; server.stop() is never called, so the
\* handlers in flight go on and new calls are still handed over.
ServeTerminate ==
    /\ server = "serving"
    /\ IF Load.entry = "rest"
       THEN server' = "draining" /\ client' = client
       ELSE server' = "closing" /\ client' = "closed"
    /\ UNCHANGED <<fn, life, workload, initCount, settings, experimentEnsured,
                   trackingUp, calls, emitted, runs>>

\* REST, after the last request in flight has ended: lifespan resumes after
\* `yield` and orchestrator.shutdown() closes the pool.
ServeDrained ==
    /\ server = "draining"
    /\ NoneInFlight
    /\ client' = "closed"
    /\ server' = "stopped"
    /\ UNCHANGED <<fn, life, workload, initCount, settings, experimentEnsured,
                   trackingUp, calls, emitted, runs>>

\* gRPC: serve_grpc has returned; asyncio.run cancels what is left (Cancel)
\* and closes the loop.
ServeLoopClosed ==
    /\ server = "closing"
    /\ NoneInFlight
    /\ server' = "stopped"
    /\ UNCHANGED <<fn, life, workload, initCount, settings, client,
                   experimentEnsured, trackingUp, calls, emitted, runs>>

NextServe ==
    \/ ServeBoot
    \/ ServeTerminate
    \/ ServeDrained
    \/ ServeLoopClosed
    \/ TrackingFlip
    \/ \E c \in Calls :
         \/ Begin(c)
         \/ RetrieveDone(c)
         \/ EnterScope(c)
         \/ Attempt(c)
         \/ Backoff(c)
         \/ Cancel(c)
         \/ ExitScope(c)

SpecServe == InitServe /\ [][NextServe]_vars

\* ------------------------------------- different requests served together
InitPair ==
    /\ workload = "pair"
    /\ settings = SettingsWith(3)
    /\ client = "none"
    /\ experimentEnsured = FALSE
    /\ trackingUp \in BOOLEAN
    /\ calls = [c \in Load.callers |-> IdleCall]
    /\ emitted = [c \in Load.callers |-> << >>]
    /\ runs = [c \in Load.callers |-> << >>]
    /\ fn = FnIdle
    /\ life = LifeIdle
    /\ server = "boot"
    /\ initCount = 0

\* The REST process: boot, serve, drain, close.
NextPair ==
    \/ ServeBoot
    \/ ServeTerminate
    \/ ServeDrained
    \/ TrackingFlip
    \/ \E c \in Calls :
         \/ Begin(c)
         \/ RetrieveDone(c)
         \/ EnterScope(c)
         \/ Attempt(c)
         \/ Backoff(c)
         \/ Cancel(c)
         \/ ExitScope(c)

SpecPair == InitPair /\ [][NextPair]_vars

\* --------------------------------------------------- pure helpers, called
\* The pipeline stands still while the pure helpers are exercised.
PipeIdle ==
    /\ workload = "none"
    /\ settings = SettingsWith(3)
    /\ client = "none"
    /\ experimentEnsured = FALSE
    /\ trackingUp = TRUE
    /\ calls = [c \in Load.callers |-> IdleCall]
    /\ emitted = [c \in Load.callers |-> << >>]
    /\ runs = [c \in Load.callers |-> << >>]
    /\ server = "direct"
    /\ initCount = 0

InitFn == PipeIdle /\ fn = FnIdle /\ life = LifeIdle

CallFormatRagContext ==
    /\ \E chunks \in ChunkSeqs :
         fn' = [op |-> "format_rag_context", in |-> chunks,
                out |-> FormatRagContext(chunks)]
    /\ UNCHANGED <<pipeVars, life>>

CallBuildPrompt ==
    /\ \E sp \in SystemPrompts, cj \in ContextJsons, chunks \in ChunkSeqs,
          um \in UserMessages :
         fn' = [op |-> "build_prompt",
                in |-> [system_prompt |-> sp, context_json |-> cj,
                        rag_context |-> FormatRagContext(chunks), user_message |-> um],
                out |-> BuildPrompt(sp, cj, FormatRagContext(chunks), um)]
    /\ UNCHANGED <<pipeVars, life>>

\* generate_structured, its inner generate having returned `text`
CallGenerateStructured ==
    /\ \E text \in StructuredTexts :
         fn' = [op |-> "generate_structured", in |-> text,
                out |-> GenerateStructured(text)]
    /\ UNCHANGED <<pipeVars, life>>

\* JSON objects a backend may answer with: any of the fields may be missing.
Answers ==
    LET full == [response |-> <<"Hello">>, model |-> "served-model",
                 total_duration |-> 1000, prompt_eval_count |-> 5, eval_count |-> 3]
    IN { [k \in present |-> full[k]] : present \in SUBSET ResponseFields }

\* Lines 167-176 of LLMService.generate, the answer parsed into `data`.
CallLLMResult ==
    /\ \E data \in Answers, _model \in {"qwen2.5:7b-instruct", "m2"} :
         fn' = [op |-> "llm_result", in |-> [data |-> data, model |-> _model],
                out |-> LLMResultFrom(data, _model)]
    /\ UNCHANGED <<pipeVars, life>>

NextFn ==
    \/ CallFormatRagContext
    \/ CallBuildPrompt
    \/ CallGenerateStructured
    \/ CallLLMResult

SpecFn == InitFn /\ [][NextFn]_vars


\* ------------------------------------------- LLMService lifecycle, alone
MaxOps == 4              \* lifecycle calls made on the one LLMService object

\* What the pipeline sees of the object: no client, an open or a closed one.
ClientView(l) ==
    IF l.client = 0 THEN "none"
    ELSE IF l.pools[l.client] = "open" THEN "open" ELSE "closed"

ShutdownWithoutGuard(l) ==
    IF l.client = 0 THEN Exc("AttributeError", "NoneType has no attribute aclose", 0)
    ELSE NoExc

\* httpx.AsyncClient.aclose() raises nothing, open or already closed.
AcloseExc(pool) == NoExc

\* What shutdown raises: `if self._client:` skips None.
ShutdownExc(l) == IF l.client # 0 THEN AcloseExc(l.pools[l.client]) ELSE NoExc

\* self._client.aclose(): the pool the object holds is released.
Aclose(l) ==
    IF l.client = 0 THEN l.pools
    ELSE [l.pools EXCEPT ![l.client] = "closed"]

InitLife == PipeIdle /\ fn = FnIdle /\ life = LifeIdle

LifeStep(l) ==
    /\ life' = l
    /\ client' = ClientView(l)
    /\ UNCHANGED <<fn, settings, experimentEnsured, trackingUp, calls, emitted, runs,
                   workload, server, initCount>>

\* LLMService.startup: a new AsyncClient is created and stored.
LifeStartup ==
    /\ Len(life.hist) < MaxOps
    /\ LifeStep([client |-> Len(life.pools) + 1,
                 pools |-> Append(life.pools, "open"),
                 hist |-> Append(life.hist, [op |-> "startup", exc |-> NoExc])])

\* LLMService.shutdown
LifeShutdown ==
    /\ Len(life.hist) < MaxOps
    /\ LifeStep([client |-> life.client,
                 pools |-> IF ShutdownExc(life) = NoExc THEN Aclose(life) ELSE life.pools,
                 hist |-> Append(life.hist, [op |-> "shutdown", exc |-> ShutdownExc(life)])])

\* LLMService.generate called directly, the backend answering HTTP 200.
LifeGenerate ==
    /\ Len(life.hist) < MaxOps
    /\ LifeStep([life EXCEPT !.hist =
         Append(@, [op |-> "generate", exc |-> AttemptExc(ClientView(life), IdleCall, 1)])])

NextLife ==
    \/ LifeStartup
    \/ LifeShutdown
    \/ LifeGenerate

SpecLife == InitLife /\ [][NextLife]_vars

\* ------------------------------------------------------- reading a call
Done(c) == calls[c].pc = "done"

\* The task was cancelled while generate was suspended.
Cancelled(c) ==
    calls[c].bodyExc.cls = "CancelledError" \/ calls[c].outcome.exc.cls = "CancelledError"

\* Some attempt found no usable client (never started, or already closed).
ClientBad(c) == calls[c].bodyExc.cls = "RuntimeError"

\* Failures the specification calls transient.
TransientKinds == {"http5xx", "connect"}

\* The telemetry scope was entered, the client was usable and the task was
\* not cancelled: the backend's script alone decides the call.
BackendDecides(c) == Done(c) /\ calls[c].entered /\ ~Cancelled(c) /\ ~ClientBad(c)

SuccessRecord(c) == [output |-> BackendText(c), status |-> "success", error |-> <<"None">>]

\* ------------------------------------------------------------------ claims

\* C1: when retrieval succeeds and the backend would answer successfully
\* (at once, or after transient failures within the attempt limit), a
\* tracking outage at any point of the call leaves the call returning the
\* backend's text after exactly the backend requests a healthy run makes.
C1_OutageNeverReachesCaller ==
    \A c \in Calls :
        ( /\ Done(c) /\ calls[c].retr = "ok" /\ client = "open"
          /\ ~Cancelled(c) /\ ~ClientBad(c)
          /\ calls[c].fail \in TransientKinds \cup {"none"}
          /\ calls[c].nfail < 3 )
        => /\ calls[c].outcome.kind = "return"
           /\ calls[c].outcome.text = BackendText(c)
           /\ calls[c].requests = calls[c].nfail + 1

\* C2 (as claimed): every terminated generate invocation has emitted exactly
\* one telemetry record, whichever step failed.
C2_ExactlyOneRecordAlways ==
    \A c \in Calls : Done(c) => Len(emitted[c]) = 1

\* C2 (amended): a generate invocation never emits more than one record, and
\* a terminated one has emitted exactly one if it entered the telemetry
\* scope and none otherwise (retrieval raised or was cancelled, or the lazy
\* experiment initialisation raised), however many backend attempts it made.
C2_OneRecordIffScopeEntered ==
    \A c \in Calls :
        /\ Len(emitted[c]) <= 1
        /\ Done(c) => (Len(emitted[c]) = 1 <=> calls[c].entered)

C2_Witness ==
    \E c \in Calls :
        /\ Done(c) /\ calls[c].entered /\ calls[c].requests = 3
        /\ calls[c].outcome.kind = "raise" /\ Len(emitted[c]) = 1

\* C3: the status tag of a persisted record is "error" whenever the body of
\* the telemetry scope did not complete normally and "success" only when it
\* returned normally.
C3_StatusMatchesOutcome ==
    \A c \in Calls : \A i \in 1 .. Len(runs[c]) :
        runs[c][i].status # "unset"
        => runs[c][i].status = (IF calls[c].bodyExc = NoExc THEN "success" ELSE "error")

\* C4: when the backend call fails inside the telemetry scope, a record with
\* status "error" is handed to persistence and the caller receives the
\* backend error itself.
C4_ErrorRecordedThenReraised ==
    \A c \in Calls :
        (BackendDecides(c) /\ calls[c].bodyExc # NoExc)
        => /\ Len(emitted[c]) = 1
           /\ emitted[c][1].status = "error"
           /\ calls[c].outcome.kind = "raise"
           /\ calls[c].outcome.exc = BackendExc(calls[c].fail, calls[c].attemptNumber)

\* C5: an HTTP 4xx answer or an unparseable body is never retried: one
\* backend request, no backoff, the error surfaced at once.
C5_PermanentNeverRetried ==
    \A c \in Calls :
        (BackendDecides(c) /\ calls[c].fail \in {"http4xx", "malformed"})
        => /\ calls[c].requests = 1
           /\ calls[c].delays = << >>
           /\ calls[c].outcome.exc = BackendExc(calls[c].fail, 1)

\* C6: when every attempt fails transiently, exactly 3 backend requests are
\* issued (and never more than 3 by any call) and the caller receives the
\* error of the third attempt, unchanged and unwrapped.
C6_ThreeAttemptsThenLastError ==
    \A c \in Calls :
        /\ calls[c].requests <= 3
        /\ (BackendDecides(c) /\ calls[c].fail \in TransientKinds /\ calls[c].nfail >= 3)
           => /\ calls[c].requests = 3
              /\ calls[c].outcome.kind = "raise"
              /\ calls[c].outcome.exc = BackendExc(calls[c].fail, 3)

C6_Witness ==
    \E c \in Calls :
        /\ BackendDecides(c) /\ calls[c].fail \in TransientKinds /\ calls[c].nfail >= 3
        /\ calls[c].requests = 3 /\ calls[c].delays = <<1, 2>>

\* C7: under persistent transient failure the number of attempts equals
\* Settings.llm_max_retries, whatever its value.
C7_AttemptsFollowSetting ==
    \A c \in Calls :
        ( /\ BackendDecides(c) /\ calls[c].fail \in TransientKinds
          /\ calls[c].nfail = MaxFail /\ settings.llm_max_retries <= MaxFail )
        => calls[c].attemptNumber = settings.llm_max_retries

\* C8: k = 1 or 2 transient failures followed by HTTP 200 with a valid body:
\* generate returns that body's text after exactly k+1 backend requests, and
\* one record, with status "success", is emitted for the whole call (the
\* tracking server stores it, whole or cut short, or not at all).
C8_RetryThenSuccess ==
    \A c \in Calls :
        (BackendDecides(c) /\ calls[c].fail \in TransientKinds /\ calls[c].nfail \in {1, 2})
        => /\ calls[c].outcome = [kind |-> "return", text |-> BackendText(c), exc |-> NoExc]
           /\ calls[c].requests = calls[c].nfail + 1
           /\ emitted[c] = <<SuccessRecord(c)>>
           /\ runs[c] \in {<< >>, <<SuccessRecord(c)>>, <<PartialRun(SuccessRecord(c))>>}

C8_Witness ==
    \E c \in Calls :
        /\ BackendDecides(c) /\ calls[c].fail = "http5xx" /\ calls[c].nfail = 2
        /\ calls[c].outcome.kind = "return" /\ calls[c].requests = 3
        /\ runs[c] = <<SuccessRecord(c)>>

\* C9: an expired per-request timeout is retried like a connection failure:
\* further attempts follow, up to the limit.
C9_TimeoutRetried ==
    \A c \in Calls :
        (BackendDecides(c) /\ calls[c].fail = "timeout")
        => calls[c].requests = Min2(calls[c].nfail + 1, 3)

\* C10: generate before startup fails with the not-started RuntimeError on
\* its first attempt: no backend request, no retry, no backoff, and the
\* client is left as it was.
C10_NotStartedFailsAtOnce ==
    [][\A c \in Calls :
         ( /\ calls[c].pc = "llm" /\ calls[c].attemptNumber = 0 /\ client = "none"
           /\ calls'[c].attemptNumber # calls[c].attemptNumber )
         => /\ calls'[c].pc = "exit"
            /\ calls'[c].bodyExc = Exc("RuntimeError", "LLMService not started", 1)
            /\ calls'[c].attemptNumber = 1
            /\ calls'[c].requests = 0
            /\ calls'[c].delays = << >>
            /\ client' = "none"]_vars

C10_Witness ==
    \E c \in Calls :
        /\ Done(c)
        /\ calls[c].outcome.exc = Exc("RuntimeError", "LLMService not started", 1)
        /\ calls[c].requests = 0 /\ emitted[c][1].status = "error"

\* C12: for every text the backend returns, generate_structured returns a
\* mapping: {"text": raw} when the text is not valid JSON, the parsed
\* value otherwise, a mapping also when the JSON text is not an object.
C12_StructuredAlwaysMapping ==
    fn.op = "generate_structured"
    => /\ fn.out.type = "dict"
       /\ ~JsonLoads(fn.in).ok => fn.out = TextFallback(fn.in)
       /\ JsonLoads(fn.in).type = "dict" => fn.out.value = fn.in

\* Tokens of seq that directly follow an occurrence of mark.
RECURSIVE Following(_, _)
Following(mark, seq) ==
    IF Len(seq) < 2 THEN << >>
    ELSE IF seq[1] = mark THEN <<seq[2]>> \o Following(mark, Tail(seq))
    ELSE Following(mark, Tail(seq))

\* C18: build_prompt emits the sections in the order System, Context, RAG,
\* User, leaves out exactly those whose source string is empty, always ends
\* with the User section, and puts exactly one blank line between
\* consecutive sections.
C18_PromptSections ==
    fn.op = "build_prompt"
    => LET a == fn.in
           sec(h, body) == <<h, "\n">> \o body
           opt(present, text) == IF present THEN text \o BlankLine ELSE << >>
       IN fn.out = opt(a.system_prompt # << >>, sec("[System]", a.system_prompt))
                   \o opt(a.context_json # << >>, sec("[Context]", a.context_json))
                   \o opt(a.rag_context # << >>, a.rag_context)
                   \o sec("[User]", a.user_message)

C18_Witness ==
    /\ fn.op = "build_prompt"
    /\ fn.in.system_prompt # << >> /\ fn.in.context_json = << >>
    /\ fn.in.rag_context # << >> /\ fn.in.user_message = << >>
    /\ Following("\n\n", fn.out)[1] = "### Retrieved Context ###"

\* C19: format_rag_context returns "" for no chunks; otherwise header, the
\* chunks in the order the retriever returned them, labelled 1, 2, ..., n,
\* then the footer.
C19_RagOrderAndLabels ==
    fn.op = "format_rag_context"
    => LET chunks == fn.in
           n == Len(chunks)
       IN IF n = 0 THEN fn.out = << >>
          ELSE /\ fn.out[1] = "### Retrieved Context ###"
               /\ fn.out[Len(fn.out)] = "### End Context ###"
               /\ Following("[", fn.out) = [i \in 1 .. n |-> ToString(i)]
               /\ Following(" (source=", fn.out) = [i \in 1 .. n |-> chunks[i].source]
               /\ Following("\n", fn.out) = [i \in 1 .. n |-> chunks[i].content]

C19_Witness ==
    /\ fn.op = "format_rag_context"
    /\ Len(fn.in) = 2 /\ fn.in[1].score < fn.in[2].score
    /\ Following("\n", fn.out) = <<fn.in[1].content, fn.in[2].content>>

Last(seq) == seq[Len(seq)]

\* C11: shutdown raises no error in any lifecycle state (before startup,
\* after startup, repeated); a shutdown following a startup leaves the
\* pool the object holds released, a released pool stays released, and a
\* shutdown directly after a shutdown changes nothing.
C11_ShutdownSafeIdempotent ==
    [][ /\ \A i \in 1 .. Len(life.pools) :
             life.pools[i] = "closed" => life'.pools[i] = "closed"
        /\ (Len(life'.hist) = Len(life.hist) + 1 /\ Last(life'.hist).op = "shutdown")
           => /\ Last(life'.hist).exc = NoExc
              /\ life'.client # 0 => life'.pools[life'.client] = "closed"
              /\ (life.hist # << >> /\ Last(life.hist).op = "shutdown")
                 => life'.pools = life.pools /\ life'.client = life.client
      ]_vars

C11_Witness ==
    /\ Len(life.hist) = 4
    /\ [i \in 1 .. 4 |-> life.hist[i].op] = <<"shutdown", "startup", "shutdown", "shutdown">>
    /\ life.pools = <<"closed">>

\* C14: when the retriever raises, generate raises that very error, no
\* backend request is issued, the telemetry scope is never entered and no
\* record is emitted or stored for the call.
C14_RetrievalErrorPropagates ==
    \A c \in Calls :
        (Done(c) /\ calls[c].retr = "raise" /\ ~Cancelled(c))
        => /\ calls[c].outcome.kind = "raise"
           /\ calls[c].outcome.exc = Exc("RetrievalError", "retrieval failed", 0)
           /\ calls[c].requests = 0 /\ calls[c].bodies = {}
           /\ ~calls[c].entered
           /\ emitted[c] = << >> /\ runs[c] = << >>
           /\ calls[c].log = <<"resolve", "raise">>

C14_Witness ==
    \E c \in Calls :
        /\ Done(c) /\ calls[c].retr = "raise"
        /\ calls[c].outcome.exc.cls = "RetrievalError"
        /\ client = "open" /\ trackingUp

\* Position of a step of generate in the order the specification gives.
Rank(ev) ==
    CASE ev = "resolve" -> 1
      [] ev = "retrieved" -> 2
      [] ev = "prompt" -> 3
      [] ev = "enter" -> 4
      [] ev = "request" -> 5
      [] ev = "persist" -> 6
      [] ev \in {"return", "raise"} -> 7

Has(ev, log) == \E i \in 1 .. Len(log) : log[i] = ev

Count(ev, log) == Cardinality({i \in 1 .. Len(log) : log[i] = ev})

MetadataFields ==
    {"model", "temperature", "max_tokens", "eval_count", "prompt_eval_count",
     "total_duration_ns", "rag_chunks_used"}

\* C13: within one call the steps happen in order and none is skipped:
\* retrieval is complete before the prompt is built, the prompt is built and
\* the telemetry scope entered before the first backend request, persistence
\* is attempted after the last request and before the call ends; a call that
\* returns gives text, metadata (all fields) and metadata_json, and a call
\* that raises gives no part of a result.
C13_StepsInOrderNoPartialResult ==
    \A c \in Calls :
        LET log == calls[c].log IN
        /\ \A i, j \in 1 .. Len(log) :
             i < j => /\ Rank(log[i]) <= Rank(log[j])
                      /\ Rank(log[i]) = Rank(log[j]) => log[i] = "request"
        /\ Has("prompt", log) => Has("retrieved", log)
        /\ Has("enter", log) => Has("prompt", log)
        /\ Has("request", log) => Has("enter", log)
        /\ Has("persist", log) => Has("enter", log)
        /\ Count("request", log) = calls[c].requests
        /\ Has("enter", log) <=> calls[c].entered
        /\ Has("persist", log) <=> emitted[c] # << >>
        /\ (Done(c) /\ calls[c].entered) => Has("persist", log)
        /\ Has("return", log) <=> calls[c].outcome.kind = "return"
        /\ Has("return", log)
           => /\ Has("request", log) /\ Has("persist", log)
              /\ calls[c].result.text = calls[c].outcome.text
              /\ DOMAIN calls[c].result.metadata = MetadataFields
              /\ calls[c].result.metadata_json = Dumps(calls[c].result.metadata)
        /\ ~Has("return", log) => calls[c].result = NoResult

C13_Witness ==
    \E c \in Calls :
        /\ calls[c].log = <<"resolve", "retrieved", "prompt", "enter",
                            "request", "request", "persist", "return">>
        /\ calls[c].chunks # << >>
        /\ calls[c].result.metadata_json # << >>

\* C17: the rag_chunks_used of the returned metadata is the number of chunks
\* the retriever returned for that call (0 when it returned none), and the
\* prompt sent to the backend carries exactly those chunks, all of them and
\* in the order returned.
C17_ChunksCountedAndFormatted ==
    \A c \in Calls :
        LET call == calls[c]
            n == Len(call.chunks)
        IN
        /\ Has("return", call.log)
           => /\ call.result.metadata.rag_chunks_used = n
              /\ call.chunks \in Load.chunkSeqs
        /\ Has("prompt", call.log)
           => /\ call.prompt = BuildPrompt(call.req.system_prompt, call.req.context_json,
                                           FormatRagContext(call.chunks),
                                           call.req.user_message)
              /\ Following(" (source=", call.prompt) = [i \in 1 .. n |-> call.chunks[i].source]
              /\ Count(RagHeader[1], call.prompt) = (IF n = 0 THEN 0 ELSE 1)
              /\ \A body \in call.bodies : body.prompt = call.prompt

C17_Witness ==
    \E c \in Calls :
        /\ Has("return", calls[c].log)
        /\ Len(calls[c].chunks) = 2 /\ calls[c].chunks[1] # calls[c].chunks[2]
        /\ calls[c].result.metadata.rag_chunks_used = 2
        /\ calls[c].requests = 2 /\ calls[c].bodies # {}

\* What a request asks for: the value the transport was sent, or the
\* keyword argument of a direct call (None: nothing asked).
Asked(rq, k) ==
    IF Len(rq.wire) = 4 THEN <<rq.wire[k + 1]>>
    ELSE <<rq.model_name, rq.temperature, rq.max_tokens>>[k]

\* The effective value the specification gives: the configured default when
\* nothing is asked or a transport sent 0 / "", the override when one is
\* given; a direct caller's own 0 / "" may count as either.
Effective(rq, k, falsy, default) ==
    LET asked == Asked(rq, k) IN
    IF asked = << >> THEN {default}
    ELSE IF asked[1] # falsy THEN {asked[1]}
    ELSE IF Len(rq.wire) = 4 THEN {default}
    ELSE {falsy, default}

\* C20: the effective model, temperature and max_tokens of a call are the
\* request's override or else the configured default, and one and the same
\* value is logged to telemetry, sent in every backend request body and
\* (temperature, max_tokens) returned in the metadata.
C20_ResolvedOnceUsedEverywhere ==
    \A c \in Calls :
        LET call == calls[c] IN
        Has("resolve", call.log)
        => /\ call.model \in Effective(call.req, 1, "", settings.ollama_model)
           /\ call.temperature \in Effective(call.req, 2, 0, settings.default_temperature)
           /\ call.max_tokens \in Effective(call.req, 3, 0, settings.default_max_tokens)
           /\ call.entered
              => /\ call.tracked.model_name = call.model
                 /\ call.tracked.temperature = call.temperature
                 /\ call.tracked.max_tokens = call.max_tokens
                 /\ call.tracked.full_prompt = call.prompt
           /\ call.requests > 0 <=> call.bodies # {}
           /\ \A body \in call.bodies :
                 /\ body.model = call.model
                 /\ body.options.temperature = call.temperature
                 /\ body.options.num_predict = call.max_tokens
           /\ Has("return", call.log)
              => /\ call.result.metadata.temperature = call.temperature
                 /\ call.result.metadata.max_tokens = call.max_tokens

C20_Witness ==
    \E c \in Calls :
        /\ Has("return", calls[c].log)
        /\ calls[c].req.wire = <<"grpc", "m2", 0, 64>>
        /\ calls[c].requests = 2 /\ calls[c].bodies # {}
        /\ \A body \in calls[c].bodies :
             /\ body.model = "m2"
             /\ body.options = [temperature |-> DefaultTemperatureTenths, num_predict |-> 64]
        /\ calls[c].tracked.max_tokens = 64

\* C15: shutdown drains in both transports: the connection pool is closed
\* only when no generate call is in flight, no call is handed to the
\* orchestrator once the pool is closed, and so no call ever finds the pool
\* of its client closed.
C15_ShutdownDrains ==
    /\ client = "closed" => (NoneInFlight /\ ~Accepting)
    /\ \A c \in Calls : ~ClientBad(c)

\* C16: however concurrent calls interleave, the tracking handle is
\* initialised successfully at most once, by the first call to get into the
\* telemetry scope; every later call finds the flag set and does not
\* initialise again; and a call that entered the scope opens one tracking
\* run block, never a second one, and has done so when it ends.
C16_InitOnceOneRunEach ==
    [][ /\ initCount' <= 1
        /\ experimentEnsured' <=> initCount' = 1
        /\ experimentEnsured => experimentEnsured' /\ initCount' = initCount
        /\ initCount' # initCount
           => /\ \A c \in Calls : ~calls[c].entered
              /\ \E c \in Calls : calls'[c].entered
        /\ \A c \in Calls :
             /\ calls'[c].entered => experimentEnsured'
             /\ Len(emitted'[c]) <= 1 /\ Len(runs'[c]) <= 1
             /\ emitted'[c] # << >> => calls'[c].entered
             /\ (calls'[c].pc = "done" /\ calls'[c].entered) => Len(emitted'[c]) = 1
      ]_vars

\* Two calls inside the scope at once; the second ends while the first is
\* still backing off.
C16_Witness ==
    /\ initCount = 1
    /\ calls[1].entered /\ calls[1].pc = "backoff"
    /\ calls[2].entered /\ Done(2) /\ calls[2].outcome.kind = "return"
    /\ Len(emitted[2]) = 1 /\ Len(runs[2]) = 1 /\ emitted[1] = << >>

\* C24: after a shutdown (and no startup since) the object is uninitialised
\* again: it holds no client, and a generate call fails with the very error
\* of a call made before any startup, with no request sent.
C24_ShutdownBackToUninitialised ==
    \A i \in 1 .. Len(life.hist) :
        /\ (i = Len(life.hist) /\ life.hist[i].op = "shutdown") => life.client = 0
        /\ (i > 1 /\ life.hist[i].op = "generate" /\ life.hist[i - 1].op = "shutdown")
           => life.hist[i].exc = Exc("RuntimeError", "LLMService not started", 1)

\* C25: when the last lifecycle call was a shutdown, every pool any startup
\* created is closed, also one replaced by a second startup.
C25_EveryPoolClosedAfterShutdown ==
    (life.hist # << >> /\ Last(life.hist).op = "shutdown")
    => \A i \in 1 .. Len(life.pools) : life.pools[i] = "closed"

\* The wait after attempt 1, 2, ... as the retry decorator computes it.
WaitTable == [n \in 1 .. MaxWaitAttempts |-> WaitExponential(n)]

\* C22: the delay after the first failed attempt is 1 second, each further
\* one is twice the one before, none is below 1 or above 10 seconds; a delay
\* is slept only between a failed attempt and the next attempt, never before
\* the first attempt and never after the last.
C22_BackoffDelays ==
    /\ \A n \in 1 .. MaxWaitAttempts :
         /\ WaitTable[n] >= 1 /\ WaitTable[n] <= 10
         /\ n = 1 => WaitTable[n] = 1
         /\ n > 1 => WaitTable[n] = Min2(10, 2 * WaitTable[n - 1])
    /\ \A c \in Calls :
         LET d == calls[c].delays
             n == calls[c].attemptNumber
         IN
         /\ \A i \in 1 .. Len(d) : d[i] = WaitTable[i]
         /\ calls[c].pc = "backoff" => (n >= 1 /\ Len(d) = n)
         /\ calls[c].pc \in {"idle", "retrieve", "enter", "llm"} => Len(d) = n
         /\ (calls[c].pc \in {"exit", "done"} /\ ~Cancelled(c)) => Len(d) = Max2(n - 1, 0)

C22_Witness ==
    \E c \in Calls :
        /\ Done(c) /\ ~Cancelled(c) /\ calls[c].attemptNumber = 3
        /\ calls[c].delays = <<1, 2>> /\ calls[c].fail = "connect"
        /\ calls[c].outcome.kind = "raise"

\* C21: the result of an HTTP 200 answer takes each field from the JSON
\* object, and a field missing from it becomes its zero value: text and
\* model the empty string, total_duration, prompt_eval_count and eval_count 0.
C21_MissingFieldsZero ==
    fn.op = "llm_result"
    => LET data == fn.in.data
           has(k) == k \in DOMAIN data
       IN /\ fn.out.text = (IF has("response") THEN data["response"] ELSE <<"">>)
          /\ fn.out.model = (IF has("model") THEN data["model"] ELSE "")
          /\ fn.out.total_duration_ns =
               (IF has("total_duration") THEN data["total_duration"] ELSE 0)
          /\ fn.out.prompt_eval_count =
               (IF has("prompt_eval_count") THEN data["prompt_eval_count"] ELSE 0)
          /\ fn.out.eval_count = (IF has("eval_count") THEN data["eval_count"] ELSE 0)

\* C23: calls served together are independent. A step of one call changes
\* nothing of another call, its records or its stored runs; a call that is
\* under way can take its next step while another call sleeps in backoff;
\* and the text, metadata and telemetry record of a call follow from its own
\* request and its own backend answers alone.
C23_CallsIndependent ==
    [][\A c \in Calls :
         LET call == calls'[c]
             rq == call.req
             own == <<"response", c>>
         IN
         /\ calls'[c] # calls[c]
            => \A d \in Calls \ {c} :
                 calls'[d] = calls[d] /\ emitted'[d] = emitted[d] /\ runs'[d] = runs[d]
         /\ (calls[c].pc = "backoff" /\ calls'[c].pc = "backoff")
            => \A d \in Calls \ {c} :
                 calls[d].pc \in {"retrieve", "enter", "llm", "backoff", "exit"}
                 => ENABLED (RetrieveDone(d) \/ EnterScope(d) \/ Attempt(d)
                             \/ Backoff(d) \/ ExitScope(d))
         /\ call.entered
            => /\ call.tracked.full_prompt =
                    BuildPrompt(rq.system_prompt, rq.context_json, << >>, rq.user_message)
               /\ call.tracked.model_name = (IF rq.wire[2] = "" THEN settings.ollama_model
                                             ELSE rq.wire[2])
         /\ call.output \in {<<"">>, own}
         /\ emitted'[c] # << >>
            => emitted'[c] = <<Record(call.output, call.bodyExc)>>
         /\ runs'[c] # << >>
            => \E rec \in {Record(call.output, call.bodyExc)} :
                 runs'[c] \in {<<rec>>, <<PartialRun(rec)>>}
         /\ call.outcome.kind = "return"
            => /\ call.result.text = own
               /\ call.result.metadata.max_tokens =
                    (IF rq.wire[4] = 0 THEN settings.default_max_tokens ELSE rq.wire[4])
               /\ call.result.metadata.model = call.tracked.model_name
               /\ call.requests = call.nfail + 1
      ]_vars

\* The second call has returned its own answer to its own request while the
\* first, which sent a different request, sleeps in backoff.
C23_Witness ==
    /\ calls[1].pc = "backoff" /\ calls[1].req = PlainRequest("rest")
    /\ Done(2) /\ calls[2].outcome.kind = "return"
    /\ calls[2].req = OverrideRequest("rest")
    /\ calls[2].result.text = <<"response", 2>>
    /\ calls[2].result.metadata.max_tokens = 64
    /\ runs[2] = <<SuccessRecord(2)>>

====
